---- MODULE Spec2Model ----
(***************************************************************************)
(* Model of the helix multi-agent search engine:                           *)
(*   - mcp_server.py : the sandboxed tool backend (validate_path,          *)
(*                     read_file, list_file, grep, _search_file)           *)
(*   - client.py     : the agent tool-calling loop (agent) and the         *)
(*                     fan-out/fan-in coordinator with synthesis (helix)   *)
(*                                                                         *)
(* Python strings that the code concatenates are sequences of tokens;      *)
(* path strings are sequences of characters, so that str.startswith is     *)
(* computed on characters exactly as the code computes it.                 *)
(***************************************************************************)
EXTENDS Integers, Sequences, FiniteSets, TLC

VARIABLES
    \* ---- one Backend process (mcp_server.py) serving tool requests
    srvEnv,      \* its environment: [user, subdirectory] (USER_ID, SUBDIRECTORY)
    srvReq,      \* the tool request it served last
    srvResp,     \* the tool result it returned for srvReq
    fsLog,       \* filesystem accesses made for srvReq after validate_path
    \* ---- the agents of one helix call (client.py: agent)
    pc,          \* per agent: position of the coroutine
    messages,    \* per agent: the Conversation (local list `messages`)
    msg,         \* per agent: the assistant message being processed (`msg`)
    callIdx,     \* per agent: index into msg.tool_calls of the call in flight
    tool_result, \* per agent: what call_tool returned last (`result`, line 95)
    turns,       \* per agent: completion calls made so far
    backend,     \* per agent: TRUE while its Backend subprocess is alive
    pending,     \* per agent: the value the coroutine is about to return
    outcome,     \* per agent: the value the finished task holds
    lastRequest, \* per agent: what the last completion call submitted
    cancelReq,   \* per agent: cancellation requested by the coordinator
    finished,    \* agents in the order their tasks finished
    running,     \* the task blocked in a synchronous completion call, or NoTask
    \* ---- the coordinator (client.py: helix)
    hpc,         \* position of helix
    results,     \* what asyncio.gather handed back
    successful_results,
    failed_agents,
    synthInput,  \* concatenated_results submitted to the synthesis call
    synthCalls,  \* number of synthesis completion calls issued
    summary,     \* what the synthesis call returned or raised
    response     \* what helix returned: [via, text]

srvVars   == <<srvEnv, srvReq, srvResp, fsLog>>
agentVars == <<pc, messages, msg, callIdx, tool_result, turns, backend, pending, outcome,
               lastRequest, cancelReq, finished, running>>
helixVars == <<hpc, results, successful_results, failed_agents, synthInput,
               synthCalls, summary, response>>
vars      == <<srvVars, agentVars, helixVars>>

(***************************************************************************)
(* Bounds                                                                  *)
(***************************************************************************)
\* longest caller-supplied relative path, in segments
MaxPathLen == 3

(***************************************************************************)
(* Strings                                                                 *)
(***************************************************************************)
\* str.startswith
StartsWith(s, p) == Len(p) <= Len(s) /\ SubSeq(s, 1, Len(p)) = p

\* the characters of every file or directory name that occurs
NameChars(n) ==
    CASE n = "uploads"   -> <<"u","p","l","o","a","d","s">>
      [] n = "processed" -> <<"p","r","o","c","e","s","s","e","d">>
      [] n = "u1"        -> <<"u","1">>
      [] n = "u10"       -> <<"u","1","0">>
      [] n = "links"     -> <<"l","i","n","k","s">>
      [] n = "docs"      -> <<"d","o","c","s">>
      [] n = "docs2"     -> <<"d","o","c","s","2">>
      [] n = "media"     -> <<"m","e","d","i","a">>
      [] n = "a.txt"     -> <<"a",".","t","x","t">>
      [] n = "b.txt"     -> <<"b",".","t","x","t">>
      [] n = "x.txt"     -> <<"x",".","t","x","t">>
      [] n = "m.bin"     -> <<"m",".","b","i","n">>
      [] n = "sub"       -> <<"s","u","b">>
      [] n = "empty"     -> <<"e","m","p","t","y">>
      [] n = "out"       -> <<"o","u","t">>
      [] n = "lnk"       -> <<"l","n","k">>
      [] n = "secret"    -> <<"s","e","c","r","e","t">>
      [] n = "nope"      -> <<"n","o","p","e">>
      [] n = "bad.txt"   -> <<"b","a","d",".","t","x","t">>
      [] n = "list0.txt" -> <<"l","i","s","t","0",".","t","x","t">>
      [] n = "list1.txt" -> <<"l","i","s","t","1",".","t","x","t">>
      [] n = "list2.txt" -> <<"l","i","s","t","2",".","t","x","t">>
      [] OTHER           -> <<n>>

\* characters in code-point order (the part of ASCII the names use)
CodeOrder == <<".", "0", "1", "2", "a", "b", "c", "d", "e", "i", "k", "l",
               "m", "n", "o", "p", "r", "s", "t", "u", "x">>

Code(c) == CHOOSE i \in 1..Len(CodeOrder) : CodeOrder[i] = c

RECURSIVE SeqLess(_, _)
\* lexicographic order of two character strings (Python str <)
SeqLess(s, t) ==
    IF t = << >> THEN FALSE
    ELSE IF s = << >> THEN TRUE
    ELSE IF Head(s) # Head(t) THEN Code(Head(s)) < Code(Head(t))
    ELSE SeqLess(Tail(s), Tail(t))

NameLess(a, b) == SeqLess(NameChars(a), NameChars(b))

RECURSIVE PathStr(_)
\* str(Path) of an absolute POSIX path given as its sequence of names
PathStr(p) ==
    IF p = << >> THEN <<"/">>
    ELSE IF Len(p) = 1 THEN <<"/">> \o NameChars(p[1])
    ELSE PathStr(SubSeq(p, 1, Len(p) - 1)) \o <<"/">> \o NameChars(p[Len(p)])

\* p is root or lies below it, compared name by name
IsWithin(p, root) == Len(root) <= Len(p) /\ SubSeq(p, 1, Len(root)) = root

(***************************************************************************)
(* The filesystem the Backend runs on                                      *)
(***************************************************************************)
BASE_DIR == <<"uploads">>

Dir == [kind |-> "dir", lines |-> << >>, utf8 |-> TRUE, readable |-> TRUE,
        fault |-> FALSE, target |-> << >>]
File(ls) == [kind |-> "file", lines |-> ls, utf8 |-> TRUE, readable |-> TRUE,
             fault |-> FALSE, target |-> << >>]
Binary(ls) == [File(ls) EXCEPT !.utf8 = FALSE]
Locked(ls) == [File(ls) EXCEPT !.readable = FALSE]
\* a regular file whose open or read fails with an OSError that is not a
\* PermissionError (an I/O error of the device or the network mount)
Faulty(ls) == [File(ls) EXCEPT !.fault = TRUE]
Link(t) == [kind |-> "link", lines |-> << >>, utf8 |-> TRUE, readable |-> TRUE,
            fault |-> FALSE, target |-> t]

\* a converted document of n lines, every other one a hit
Alternating(n) == [i \in 1..n |-> IF i % 2 = 1 THEN "hit long" ELSE "miss"]

\* a converted document of n lines, each a hit
Repeated(n) == [i \in 1..n |-> "hit long"]

\* uploads/<user_id>/processed/{links,docs,media}/ for two users, plus what
\* the conversion collaborators and the host can leave next to them
Disk ==
    LET u1 == <<"uploads", "u1", "processed">>
        u10 == <<"uploads", "u10", "processed">>
    IN  (<<"uploads">> :> Dir) @@
        (<<"uploads", "u1">> :> Dir) @@ (u1 :> Dir) @@
        (u1 \o <<"links">> :> Dir) @@
        (u1 \o <<"links", "a.txt">> :> File(<<"hit links", "miss">>)) @@
        (u1 \o <<"docs">> :> Dir) @@
        (u1 \o <<"docs", "a.txt">> :> File(<<"hit one  ", "miss", "hit two">>)) @@
        (u1 \o <<"docs", "sub">> :> Dir) @@
        (u1 \o <<"docs", "sub", "b.txt">> :> File(<<"miss", "hit sub">>)) @@
        (u1 \o <<"docs", "empty">> :> Dir) @@
        (u1 \o <<"docs", "m.bin">> :> Binary(<<"hit bin">>)) @@
        (u1 \o <<"docs", "bad.txt">> :> Faulty(<<"hit bad">>)) @@
        (u1 \o <<"docs", "out">> :> Link(u1 \o <<"media">>)) @@
        (u1 \o <<"docs", "lnk">> :> Link(u10 \o <<"docs", "x.txt">>)) @@
        (u1 \o <<"docs2">> :> Dir) @@
        (u1 \o <<"docs2", "secret">> :> File(<<"hit secret">>)) @@
        (u1 \o <<"media">> :> Dir) @@
        (u1 \o <<"media", "m.bin">> :> Locked(<<"hit media">>)) @@
        (u1 \o <<"media", "list0.txt">> :> File(Alternating(120))) @@
        (u1 \o <<"media", "list1.txt">> :> File(Alternating(120))) @@
        (u1 \o <<"media", "list2.txt">> :> File(Repeated(101))) @@
        (<<"uploads", "u10">> :> Dir) @@ (u10 :> Dir) @@
        (u10 \o <<"links">> :> Dir) @@
        (u10 \o <<"docs">> :> Dir) @@
        (u10 \o <<"docs", "x.txt">> :> File(<<"hit other user">>)) @@
        (u10 \o <<"media">> :> Dir)

Exists(p) == p \in DOMAIN Disk
IsFile(p) == Exists(p) /\ Disk[p].kind = "file"
IsDir(p)  == Exists(p) /\ Disk[p].kind = "dir"
IsLink(p) == Exists(p) /\ Disk[p].kind = "link"

Parent(p) == IF p = << >> THEN << >> ELSE SubSeq(p, 1, Len(p) - 1)

RECURSIVE Walk(_, _)
\* Path.resolve(): walk the segments, following symlinks and folding ".."
Walk(cur, rest) ==
    IF rest = << >> THEN cur
    ELSE LET s == Head(rest) IN
         IF s = ".." THEN Walk(Parent(cur), Tail(rest))
         ELSE IF IsLink(Append(cur, s))
              THEN Walk(<< >>, Disk[Append(cur, s)].target \o Tail(rest))
              ELSE Walk(Append(cur, s), Tail(rest))

Resolve(p) == Walk(<< >>, p)

\* user_dir / rel_path : an absolute right operand replaces the left one
JoinPath(dir, rel) == IF rel.abs THEN rel.segs ELSE dir \o rel.segs


(***************************************************************************)
(* mcp_server.py : the tool Backend                                        *)
(***************************************************************************)
\* a caller-supplied path argument: given = FALSE is None or ""
NoPath == [given |-> FALSE, abs |-> FALSE, segs |-> << >>]
RelPath(segs) == [given |-> TRUE, abs |-> FALSE, segs |-> segs]
AbsPath(segs) == [given |-> TRUE, abs |-> TRUE, segs |-> segs]

Fail(e, log) == [ok |-> FALSE, err |-> e, payload |-> <<"Error executing tool", e>>,
                 log |-> log]
Ok(p, log)   == [ok |-> TRUE, err |-> "", payload |-> p, log |-> log]

Access(call, p) == [call |-> call, path |-> p]

get_user_dir(env) ==
    IF env.user = "" THEN [ok |-> FALSE, err |-> "NoUserId", path |-> << >>]
    ELSE IF env.subdirectory = ""
         THEN [ok |-> FALSE, err |-> "NoSubdirectory", path |-> << >>]
         ELSE [ok |-> TRUE, err |-> "",
               path |-> BASE_DIR \o <<env.user, "processed", env.subdirectory>>]

validate_path(user_dir, rel_path) ==
    LET full_path == Resolve(JoinPath(user_dir, rel_path))
        user_dir_resolved == Resolve(user_dir)
    IN  [ok   |-> StartsWith(PathStr(full_path), PathStr(user_dir_resolved)),
         path |-> full_path]

read_file(env, file_path) ==
    LET user_dir == get_user_dir(env) IN
    IF ~user_dir.ok THEN Fail(user_dir.err, << >>)
    ELSE LET v == validate_path(user_dir.path, file_path)
             p == v.path
         IN  IF ~v.ok THEN Fail("AccessDenied", << >>)
             ELSE IF ~Exists(p) THEN Fail("NotFound", <<Access("exists", p)>>)
             ELSE IF ~IsFile(p)
                  THEN Fail("NotAFile", <<Access("exists", p), Access("is_file", p)>>)
             ELSE LET log == <<Access("exists", p), Access("is_file", p),
                                Access("open", p)>>
                  IN  IF ~Disk[p].readable THEN Fail("PermissionError", log)
                      ELSE IF Disk[p].fault THEN Fail("OSError", log)
                      ELSE IF ~Disk[p].utf8 THEN Fail("NotText", log)
                      ELSE Ok(Disk[p].lines, log)

\* the entries of a directory, as Path.iterdir() yields them (any order)
Children(d) == {p \in DOMAIN Disk : Len(p) = Len(d) + 1 /\ Parent(p) = d}

RECURSIVE SortedPathsReversed(_)
\* variant: the entries are listed from the last name to the first
SortedPathsReversed(S) ==
    IF S = {} THEN << >>
    ELSE LET m == CHOOSE p \in S :
                      \A q \in S \ {p} : NameLess(q[Len(q)], p[Len(p)])
         IN  <<m>> \o SortedPathsReversed(S \ {m})

RECURSIVE SortedPaths(_)
\* sorted(paths of one directory): by last name, code-point order
SortedPaths(S) ==
    IF S = {} THEN << >>
    ELSE LET m == CHOOSE p \in S :
                      \A q \in S \ {p} : NameLess(p[Len(p)], q[Len(q)])
         IN  <<m>> \o SortedPaths(S \ {m})

ListLine(item) ==
    IF IsDir(Resolve(item)) THEN <<"[DIR]  ", item[Len(item)]>>
    ELSE <<"[FILE] ", item[Len(item)]>>

list_file(env, directory_path) ==
    LET user_dir == get_user_dir(env) IN
    IF ~user_dir.ok THEN Fail(user_dir.err, << >>)
    ELSE LET v == validate_path(user_dir.path, directory_path)
             p == v.path
         IN  IF ~v.ok THEN Fail("AccessDenied", << >>)
             ELSE IF ~Exists(p) THEN Fail("NotFound", <<Access("exists", p)>>)
             ELSE IF ~IsDir(p)
                  THEN Fail("NotADirectory", <<Access("exists", p), Access("is_dir", p)>>)
             ELSE LET log == <<Access("exists", p), Access("is_dir", p),
                                Access("iterdir", p)>>
                      sorted == SortedPaths(Children(p))
                      items == [i \in 1..Len(sorted) |-> ListLine(sorted[i])]
                  IN  IF items = << >> THEN Ok(<<"Directory is empty">>, log)
                      ELSE Ok(items, log)

\* ---- grep
max_matches == 100

Patterns == {"hit", ".*", "("}

\* re.compile succeeds
ValidPattern(pattern) == pattern # "("

\* regex.search(line)
Matches(pattern, line) ==
    CASE pattern = ".*"   -> TRUE
      [] pattern = "hit"  -> line \in {"hit one  ", "hit two", "hit sub", "hit bin",
                                       "hit links", "hit media", "hit secret",
                                       "hit other user", "hit long", "hit bad"}
      [] OTHER            -> FALSE

\* str.rstrip
RStrip(line) == IF line = "hit one  " THEN "hit one" ELSE line

\* the loop of _search_file over the lines from line_num on: a match is
\* appended and then the length is tested, so the loop ends after the
\* cap-th match, and after the first one when cap is below 1
ScanLines(lines, line_num, pattern, display_name, cap, matches) ==
    LET hits == SelectSeq([i \in 1..Len(lines) |-> i],
                          LAMBDA i : i >= line_num /\ Matches(pattern, lines[i]))
        room == IF cap - Len(matches) < 1 THEN 1 ELSE cap - Len(matches)
        taken == IF Len(hits) <= room THEN Len(hits) ELSE room
    IN  matches \o [k \in 1..taken |->
                       [name |-> display_name, line |-> hits[k],
                        text |-> RStrip(lines[hits[k]])]]

\* lines 153-165: open or read raises something the two except clauses of
\* _search_file do not name
SearchRaises(p) == Disk[p].readable /\ Disk[p].fault

\* _search_file: PermissionError and UnicodeDecodeError end it silently
search_file(p, pattern, display_name, cap) ==
    IF ~Disk[p].readable \/ ~Disk[p].utf8 THEN << >>
    ELSE ScanLines(Disk[p].lines, 1, pattern, display_name, cap, << >>)

\* what rglob("*") can yield below root: every entry, directory symlinks
\* not descended into
Entries(root) == {p \in DOMAIN Disk : IsWithin(p, root) /\ p # root}

\* the entries the recursive search opens
WalkFiles(root) == {p \in Entries(root) : IsFile(Resolve(p))}

Perms(S) == {f \in [1..Cardinality(S) -> S] :
                 \A i, j \in 1..Cardinality(S) : i # j => f[i] # f[j]}

\* the orders in which the filesystem may enumerate the files below root
WalkOrders(root) == Perms(WalkFiles(root))

RECURSIVE GrepWalkFullCap(_, _, _, _, _, _)
\* variant: every file is searched with the full cap, not with what is left
GrepWalkFullCap(order, i, root, pattern, matches, log) ==
    IF i > Len(order) THEN [matches |-> matches, log |-> log, raised |-> FALSE]
    ELSE LET file == order[i]
             rel == SubSeq(file, Len(root) + 1, Len(file))
             file_matches == search_file(Resolve(file), pattern, rel, max_matches)
             ms == matches \o file_matches
             lg == log \o <<Access("is_file", file), Access("open", Resolve(file))>>
         IN  IF SearchRaises(Resolve(file))
             THEN [matches |-> matches, log |-> lg, raised |-> TRUE]
             ELSE IF Len(ms) >= max_matches
             THEN [matches |-> ms, log |-> lg, raised |-> FALSE]
             ELSE GrepWalkFullCap(order, i + 1, root, pattern, ms, lg)

RECURSIVE GrepWalk(_, _, _, _, _, _)
\* the loop over rglob: [matches, log] after visiting order[i..]; an
\* exception that leaves _search_file leaves the loop and grep (raised)
GrepWalk(order, i, root, pattern, matches, log) ==
    IF i > Len(order) THEN [matches |-> matches, log |-> log, raised |-> FALSE]
    ELSE LET file == order[i]
             rel == SubSeq(file, Len(root) + 1, Len(file))
             file_matches == search_file(Resolve(file), pattern, rel,
                                         max_matches - Len(matches))
             ms == matches \o file_matches
             lg == log \o <<Access("is_file", file), Access("open", Resolve(file))>>
         IN  IF SearchRaises(Resolve(file))
             THEN [matches |-> matches, log |-> lg, raised |-> TRUE]
             ELSE IF Len(ms) >= max_matches
             THEN [matches |-> ms, log |-> lg, raised |-> FALSE]
             ELSE GrepWalk(order, i + 1, root, pattern, ms, lg)

GrepResult(pattern, matches, log) ==
    IF matches = << >>
    THEN Ok(<<[name |-> << >>, line |-> 0, text |-> "No matches found"]>>, log)
    ELSE IF Len(matches) >= max_matches
         THEN Ok(Append(matches, [name |-> << >>, line |-> 0,
                                  text |-> "(Showing first matches)"]), log)
         ELSE Ok(matches, log)

\* lines 133-149: the walk was left by an exception, or went to its end
GrepOutcome(pattern, w) ==
    IF w.raised THEN Fail("OSError", w.log)
    ELSE GrepResult(pattern, w.matches, w.log)

\* variant: the pattern is compiled after the user directory is computed
\* and the path argument validated
grepCompilingLate(env, pattern, file_path, order) ==
    LET user_dir == get_user_dir(env) IN
    IF ~user_dir.ok THEN Fail(user_dir.err, << >>)
    ELSE IF file_path.given
    THEN LET v == validate_path(user_dir.path, file_path)
             p == v.path
         IN  IF ~v.ok THEN Fail("AccessDenied", << >>)
             ELSE IF ~ValidPattern(pattern) THEN Fail("InvalidPattern", << >>)
             ELSE IF ~Exists(p) THEN Fail("NotFound", <<Access("exists", p)>>)
             ELSE IF ~IsFile(p)
                  THEN Fail("NotAFile", <<Access("exists", p), Access("is_file", p)>>)
             ELSE IF SearchRaises(p)
                  THEN Fail("OSError", <<Access("exists", p), Access("is_file", p),
                                         Access("open", p)>>)
             ELSE GrepResult(pattern,
                             search_file(p, pattern, file_path.segs, max_matches),
                             <<Access("exists", p), Access("is_file", p),
                               Access("open", p)>>)
    ELSE LET user_dir_resolved == Resolve(user_dir.path) IN
         IF ~ValidPattern(pattern) THEN Fail("InvalidPattern", << >>)
         ELSE IF ~Exists(user_dir_resolved)
         THEN Fail("NotFound", <<Access("exists", user_dir_resolved)>>)
         ELSE LET w == GrepWalk(order, 1, user_dir_resolved, pattern, << >>,
                                <<Access("exists", user_dir_resolved),
                                  Access("rglob", user_dir_resolved)>>)
              IN  GrepOutcome(pattern, w)

\* lines 97-149
grep(env, pattern, file_path, order) ==
    IF ~ValidPattern(pattern) THEN Fail("InvalidPattern", << >>)
    ELSE LET user_dir == get_user_dir(env) IN
    IF ~user_dir.ok THEN Fail(user_dir.err, << >>)
    ELSE IF file_path.given
    THEN LET v == validate_path(user_dir.path, file_path)
             p == v.path
         IN  IF ~v.ok THEN Fail("AccessDenied", << >>)
             ELSE IF ~Exists(p) THEN Fail("NotFound", <<Access("exists", p)>>)
             ELSE IF ~IsFile(p)
                  THEN Fail("NotAFile", <<Access("exists", p), Access("is_file", p)>>)
             ELSE IF SearchRaises(p)
                  THEN Fail("OSError", <<Access("exists", p), Access("is_file", p),
                                         Access("open", p)>>)
             ELSE GrepResult(pattern,
                             search_file(p, pattern, file_path.segs, max_matches),
                             <<Access("exists", p), Access("is_file", p),
                               Access("open", p)>>)
    ELSE LET user_dir_resolved == Resolve(user_dir.path) IN
         IF ~Exists(user_dir_resolved)
         THEN Fail("NotFound", <<Access("exists", user_dir_resolved)>>)
         ELSE LET w == GrepWalk(order, 1, user_dir_resolved, pattern, << >>,
                                <<Access("exists", user_dir_resolved),
                                  Access("rglob", user_dir_resolved)>>)
              IN  GrepOutcome(pattern, w)


(***************************************************************************)
(* client.py : values and texts                                            *)
(***************************************************************************)
\* Python None and str; a str is its sequence of tokens
None   == [t |-> "none", s |-> << >>]
Str(s) == [t |-> "str", s |-> s]
Truthy(v) == v.t = "str" /\ v.s # << >>
\* v or ""
OrEmpty(v) == IF Truthy(v) THEN v.s ELSE << >>

\* the (subdirectory, prompt) list of helix, in declaration order
agents == <<"links", "docs", "media">>
Agent  == {agents[i] : i \in 1..Len(agents)}
NoTask == "none"

\* the user_id helix was called with
user_id == "u1"

\* longest run of tool-calling turns the completion service makes
MaxTurns == 2

\* str.upper of a subdirectory name
Upper(a) == CASE a = "links" -> "LINKS" [] a = "docs" -> "DOCS"
              [] a = "media" -> "MEDIA" [] OTHER -> a

RECURSIVE JoinStr(_, _)
\* sep.join(parts) for a list of strings
JoinStr(sep, parts) ==
    IF parts = << >> THEN << >>
    ELSE IF Len(parts) = 1 THEN parts[1]
    ELSE parts[1] \o sep \o JoinStr(sep, Tail(parts))

HasColon(tok) == tok \in {": ", "Note: ", "Details:\n"}

RECURSIVE SplitColonHead(_)
\* f.split(':')[0] : the text before the first colon
SplitColonHead(f) ==
    IF f = << >> \/ HasColon(Head(f)) THEN << >>
    ELSE <<Head(f)>> \o SplitColonHead(Tail(f))

TimeoutMsg == <<"Error: Search request timed out. Please try again with a more specific query.">>

(***************************************************************************)
(* The completion service and the tool calls it can ask for                *)
(***************************************************************************)
Args(json, pattern, path) == [json |-> json, pattern |-> pattern, path |-> path]

ReadOk      == [name |-> "read_file", arguments |-> Args("object", "", RelPath(<<"a.txt">>))]
ReadMissing == [name |-> "read_file", arguments |-> Args("object", "", RelPath(<<"nope">>))]
ListDefault == [name |-> "list_file", arguments |-> Args("empty", "", NoPath)]
GrepBad     == [name |-> "grep", arguments |-> Args("object", "(", NoPath)]
BadJson     == [name |-> "read_file", arguments |-> Args("invalid", "", NoPath)]

\* the tool_calls lists the service may return to an agent in a given turn
ToolMenu(a, turn) ==
    IF turn > MaxTurns THEN {}
    ELSE IF a = "links"
         THEN {<<ReadMissing, ReadOk>>, <<ListDefault>>, <<ReadOk, BadJson, ReadOk>>}
         ELSE IF turn = 1 THEN {<<GrepBad>>} ELSE {}

\* the text the service writes for an agent
Answer(a) == CASE a = "links" -> <<"links answer">> [] a = "docs" -> <<"docs answer">>
               [] OTHER -> <<"media answer">>

\* str(e) of what a failing call raises; some exceptions have no message
ExcTexts == {<< >>, <<"upstream failure">>}

Message(content, calls) ==
    [kind |-> "message", content |-> content, tool_calls |-> calls, err |-> << >>]
Raise(e) == [kind |-> "raise", content |-> None, tool_calls |-> << >>, err |-> e]

\* ids the service gives the calls of one message: unique in the Conversation
WithIds(calls, base) ==
    [i \in 1..Len(calls) |-> [id |-> base + i, name |-> calls[i].name,
                              arguments |-> calls[i].arguments]]

ToolCallsIn(ms) ==
    LET RECURSIVE Count(_)
        Count(q) == IF q = << >> THEN 0 ELSE Len(Head(q).tool_calls) + Count(Tail(q))
    IN  Count(ms)

Responses(a, turn, ms) ==
    {Raise(e) : e \in ExcTexts}
    \cup {Message(c, << >>) : c \in {None, Str(Answer(a))}}
    \cup {Message(None, WithIds(calls, ToolCallsIn(ms))) : calls \in ToolMenu(a, turn)}

(***************************************************************************)
(* client.py : agent                                                       *)
(***************************************************************************)
\* variant: the tool message loses the id of the call it answers
ToolMsgWithoutId(id, payload) == [role |-> "tool", content |-> [t |-> "str", s |-> payload],
                                  tool_calls |-> << >>, tool_call_id |-> 0]

AssistantMsg(m) == [role |-> "assistant", content |-> m.content,
                    tool_calls |-> m.tool_calls, tool_call_id |-> 0]
ToolMsg(id, payload) == [role |-> "tool", content |-> Str(payload),
                         tool_calls |-> << >>, tool_call_id |-> id]
PlainMsg(role, text) == [role |-> role, content |-> Str(text),
                         tool_calls |-> << >>, tool_call_id |-> 0]

NoMsg == Message(None, << >>)

\* variant: line 129 does not catch; the exception becomes the task's value
Escapes(a, e) == [kind |-> "exc", subdirectory |-> "", result |-> << >>,
                  error |-> [t |-> "str", s |-> e]]

\* variant: the final message's content is not carried into the dict
ResultWithoutContent(a, text) ==
    [kind |-> "dict", subdirectory |-> a, result |-> << >>, error |-> None]

Result(a, text)  == [kind |-> "dict", subdirectory |-> a, result |-> text, error |-> None]
Failure(a, e)    == [kind |-> "dict", subdirectory |-> a, result |-> << >>, error |-> Str(e)]
CancelledError   == [kind |-> "exc", subdirectory |-> "", result |-> << >>, error |-> None]
NoOutcome        == [kind |-> "none", subdirectory |-> "", result |-> << >>, error |-> None]
NoCompletion     == [messages |-> << >>, tools |-> FALSE]
NoToolResult     == [id |-> 0, isError |-> FALSE, payload |-> << >>]

Scope(a) == [user |-> user_id, subdirectory |-> a]

\* the enumeration orders open to a request of this Backend: they matter
\* to the recursive grep alone, and there is no walk when the pattern does
\* not compile
OrdersOf(env, name, pattern, path) ==
    LET d == get_user_dir(env) IN
    IF name = "grep" /\ ValidPattern(pattern) /\ ~path.given /\ d.ok
       /\ Exists(Resolve(d.path))
    THEN WalkOrders(Resolve(d.path)) ELSE {<< >>}

\* the Backend's dispatch of call_tool(name, args)
CallTool(env, name, args, order) ==
    CASE name = "read_file" ->
            IF args.json = "empty" THEN Fail("InvalidArguments", << >>)
            ELSE read_file(env, args.path)
      [] name = "list_file" ->
            list_file(env, IF args.json = "empty" THEN RelPath(<< >>) ELSE args.path)
      [] name = "grep" ->
            IF args.json = "empty" THEN Fail("InvalidArguments", << >>)
            ELSE grep(env, args.pattern, args.path, order)
      [] OTHER -> Fail("UnknownTool", << >>)

\* json.loads(call.function.arguments or "{}") succeeds
JsonLoads(call) == call.arguments.json # "invalid"

\* lines 50-56: the task starts and spawns its Backend
StartAgent(a) ==
    /\ pc[a] = "created" /\ running = NoTask /\ ~cancelReq[a]
    /\ pc' = [pc EXCEPT ![a] = "initialize"]
    /\ backend' = [backend EXCEPT ![a] = TRUE]
    /\ UNCHANGED <<messages, msg, callIdx, tool_result, turns, pending, outcome, lastRequest,
                   cancelReq, finished, running, srvVars, helixVars>>

\* lines 56, 129-135: the Backend cannot be spawned; nothing to tear down
SpawnFails(a, e) ==
    /\ pc[a] = "created" /\ running = NoTask /\ ~cancelReq[a]
    /\ pc' = [pc EXCEPT ![a] = "done"]
    /\ outcome' = [outcome EXCEPT ![a] = Failure(a, e)]
    /\ finished' = Append(finished, a)
    /\ UNCHANGED <<messages, msg, callIdx, tool_result, turns, backend, pending, lastRequest,
                   cancelReq, running, srvVars, helixVars>>

\* line 58: session.initialize() returns
Initialized(a) ==
    /\ pc[a] = "initialize" /\ running = NoTask /\ ~cancelReq[a]
    /\ pc' = [pc EXCEPT ![a] = "list_tools"]
    /\ UNCHANGED <<messages, msg, callIdx, tool_result, turns, backend, pending, outcome,
                   lastRequest, cancelReq, finished, running, srvVars, helixVars>>

\* lines 60-80: list_tools returns; the Conversation is built and the first
\* completion call is made (a synchronous call: the event loop is held)
ListedTools(a) ==
    /\ pc[a] = "list_tools" /\ running = NoTask /\ ~cancelReq[a]
    /\ LET ms == <<PlainMsg("system", <<"prompt ", a>>), PlainMsg("user", <<"query">>)>>
       IN  /\ messages' = [messages EXCEPT ![a] = ms]
           /\ lastRequest' = [lastRequest EXCEPT ![a] = [messages |-> ms, tools |-> TRUE]]
    /\ turns' = [turns EXCEPT ![a] = 1]
    /\ pc' = [pc EXCEPT ![a] = "completion"]
    /\ running' = a
    /\ UNCHANGED <<msg, callIdx, tool_result, backend, pending, outcome, cancelReq,
                   finished, srvVars, helixVars>>

\* lines 58, 60, 95: a Backend request raises; the exception leaves the
\* `async with` blocks (tear-down is awaited) on its way to line 129
BackendFails(a, e) ==
    /\ pc[a] \in {"initialize", "list_tools", "call_tool"}
    /\ running = NoTask /\ ~cancelReq[a]
    /\ pc' = [pc EXCEPT ![a] = "closing"]
    /\ pending' = [pending EXCEPT ![a] = Failure(a, e)]
    /\ UNCHANGED <<messages, msg, callIdx, tool_result, turns, backend, outcome, lastRequest,
                   cancelReq, finished, running, srvVars, helixVars>>

\* variant: arguments that do not parse are taken as they are and the call
\* is sent
BeginCallLenient(a, m, k, ms) ==
    /\ pc' = [pc EXCEPT ![a] = "call_tool"]
    /\ callIdx' = [callIdx EXCEPT ![a] = k]
    /\ messages' = [messages EXCEPT ![a] = ms]
    /\ pending' = pending

\* variant: the calls of a turn are sent together; a call after the first
\* starts before the result of the one before it has been appended
BeginCallTogether(a, m, k, ms) ==
    LET sofar == IF k > 1 THEN SubSeq(ms, 1, Len(ms) - 1) ELSE ms IN
    IF JsonLoads(m.tool_calls[k])
    THEN /\ pc' = [pc EXCEPT ![a] = "call_tool"]
         /\ callIdx' = [callIdx EXCEPT ![a] = k]
         /\ messages' = [messages EXCEPT ![a] = sofar]
         /\ pending' = pending
    ELSE /\ pc' = [pc EXCEPT ![a] = "closing"]
         /\ callIdx' = [callIdx EXCEPT ![a] = k]
         /\ messages' = [messages EXCEPT ![a] = sofar]
         /\ pending' = [pending EXCEPT ![a] = Failure(a, <<"JSONDecodeError">>)]

\* lines 89-95 for msg.tool_calls[k]: parse the arguments, send call_tool
BeginCall(a, m, k, ms) ==
    IF JsonLoads(m.tool_calls[k])
    THEN /\ pc' = [pc EXCEPT ![a] = "call_tool"]
         /\ callIdx' = [callIdx EXCEPT ![a] = k]
         /\ messages' = [messages EXCEPT ![a] = ms]
         /\ pending' = pending
    ELSE /\ pc' = [pc EXCEPT ![a] = "closing"]
         /\ callIdx' = [callIdx EXCEPT ![a] = k]
         /\ messages' = [messages EXCEPT ![a] = ms]
         /\ pending' = [pending EXCEPT ![a] = Failure(a, <<"JSONDecodeError">>)]

\* lines 82-95, 119-135: a completion call returns or raises
CompletionReturns(a, r) ==
    /\ pc[a] = "completion" /\ running = a
    /\ r \in Responses(a, turns[a], messages[a])
    /\ running' = NoTask
    /\ msg' = [msg EXCEPT ![a] = r]
    /\ IF r.kind = "raise"
       THEN /\ pc' = [pc EXCEPT ![a] = "closing"]
            /\ pending' = [pending EXCEPT ![a] = Failure(a, r.err)]
            /\ UNCHANGED <<messages, callIdx>>
       ELSE IF r.tool_calls = << >>
       THEN /\ pc' = [pc EXCEPT ![a] = "closing"]
            /\ pending' = [pending EXCEPT ![a] = Result(a, OrEmpty(r.content))]
            /\ UNCHANGED <<messages, callIdx>>
       ELSE BeginCall(a, r, 1, Append(messages[a], AssistantMsg(r)))
    /\ UNCHANGED <<tool_result, turns, backend, outcome, lastRequest, cancelReq,
                   finished, srvVars, helixVars>>

\* lines 115-118: the follow-up completion call
FollowUp(a, ms) ==
    /\ pc' = [pc EXCEPT ![a] = "completion"]
    /\ messages' = [messages EXCEPT ![a] = ms]
    /\ lastRequest' = [lastRequest EXCEPT ![a] = [messages |-> ms, tools |-> FALSE]]
    /\ turns' = [turns EXCEPT ![a] = @ + 1]
    /\ running' = a
    /\ UNCHANGED <<callIdx, pending>>

\* variant: a tool result flagged isError is raised instead of appended
ToolReturnsRaising(a, order) ==
    /\ pc[a] = "call_tool" /\ running = NoTask /\ ~cancelReq[a]
    /\ LET call == msg[a].tool_calls[callIdx[a]]
           result == CallTool(Scope(a), call.name, call.arguments, order)
           ms == Append(messages[a], ToolMsg(call.id, result.payload))
       IN  /\ tool_result' = [tool_result EXCEPT ![a] =
                   [id |-> call.id, isError |-> ~result.ok, payload |-> result.payload]]
           /\ IF ~result.ok
              THEN /\ pc' = [pc EXCEPT ![a] = "closing"]
                   /\ pending' = [pending EXCEPT ![a] = Failure(a, result.payload)]
                   /\ UNCHANGED <<messages, callIdx, lastRequest, turns, running>>
              ELSE IF callIdx[a] < Len(msg[a].tool_calls)
              THEN /\ BeginCall(a, msg[a], callIdx[a] + 1, ms)
                   /\ UNCHANGED <<lastRequest, turns, running>>
              ELSE FollowUp(a, ms)
    /\ UNCHANGED <<msg, backend, outcome, cancelReq, finished, srvVars, helixVars>>

ToolOrders(a) ==
    IF pc[a] # "call_tool" THEN {}
    ELSE LET call == msg[a].tool_calls[callIdx[a]]
         IN  OrdersOf(Scope(a), call.name, call.arguments.pattern, call.arguments.path)

\* lines 95-118: call_tool returns; the tool message is appended; then the
\* next call of the turn, or the follow-up completion call.  In a turn past
\* MaxTurns (see LateTurn) the Conversation and the turns are not recorded.
ToolReturns(a, order) ==
    /\ pc[a] = "call_tool" /\ running = NoTask /\ ~cancelReq[a]
    /\ LET call == msg[a].tool_calls[callIdx[a]]
           result == CallTool(Scope(a), call.name, call.arguments, order)
           ms == Append(messages[a], ToolMsg(call.id, result.payload))
       IN  /\ tool_result' = [tool_result EXCEPT ![a] =
                   [id |-> call.id, isError |-> ~result.ok, payload |-> result.payload]]
           /\ IF turns[a] > MaxTurns
              THEN /\ pc' = [pc EXCEPT ![a] = "completion"]
                   /\ running' = a
                   /\ UNCHANGED <<messages, callIdx, pending, lastRequest, turns>>
              ELSE IF callIdx[a] < Len(msg[a].tool_calls)
              THEN /\ BeginCall(a, msg[a], callIdx[a] + 1, ms)
                   /\ UNCHANGED <<lastRequest, turns, running>>
              ELSE FollowUp(a, ms)
    /\ UNCHANGED <<msg, backend, outcome, cancelReq, finished, srvVars, helixVars>>

\* lines 82-95 past MaxTurns: the service asks for a tool call once more.
\* `while msg.tool_calls` has no turn limit; from here on the model no
\* longer records the growing Conversation nor counts the turns, and
\* ToolReturns leads back to the completion call.
LateTurn(a) ==
    /\ pc[a] = "completion" /\ running = a
    /\ turns[a] > MaxTurns
    /\ running' = NoTask
    /\ msg' = [msg EXCEPT ![a] =
                   Message(None, WithIds(<<ListDefault>>, ToolCallsIn(messages[a])))]
    /\ pc' = [pc EXCEPT ![a] = "call_tool"]
    /\ callIdx' = [callIdx EXCEPT ![a] = 1]
    /\ UNCHANGED <<messages, tool_result, turns, backend, pending, outcome, lastRequest,
                   cancelReq, finished, srvVars, helixVars>>

\* variant: the coroutine returns without leaving the `async with` blocks,
\* so the Backend is not terminated
CloseLeavingBackend(a) ==
    /\ pc[a] = "closing" /\ running = NoTask /\ ~cancelReq[a]
    /\ pc' = [pc EXCEPT ![a] = "done"]
    /\ outcome' = [outcome EXCEPT ![a] = pending[a]]
    /\ pending' = [pending EXCEPT ![a] = NoOutcome]
    /\ messages' = [messages EXCEPT ![a] = << >>]
    /\ msg' = [msg EXCEPT ![a] = NoMsg]
    /\ callIdx' = [callIdx EXCEPT ![a] = 0]
    /\ tool_result' = [tool_result EXCEPT ![a] = NoToolResult]
    /\ lastRequest' = [lastRequest EXCEPT ![a] = NoCompletion]
    /\ finished' = Append(finished, a)
    /\ UNCHANGED <<turns, backend, cancelReq, running, srvVars, helixVars>>

\* lines 56-57, 122-135: the `async with` blocks are left, the Backend is
\* terminated and the coroutine returns its dict
Close(a) ==
    /\ pc[a] = "closing" /\ running = NoTask /\ ~cancelReq[a]
    /\ pc' = [pc EXCEPT ![a] = "done"]
    /\ backend' = [backend EXCEPT ![a] = FALSE]
    /\ outcome' = [outcome EXCEPT ![a] = pending[a]]
    /\ pending' = [pending EXCEPT ![a] = NoOutcome]
    /\ messages' = [messages EXCEPT ![a] = << >>]
    /\ msg' = [msg EXCEPT ![a] = NoMsg]
    /\ callIdx' = [callIdx EXCEPT ![a] = 0]
    /\ tool_result' = [tool_result EXCEPT ![a] = NoToolResult]
    /\ lastRequest' = [lastRequest EXCEPT ![a] = NoCompletion]
    /\ finished' = Append(finished, a)
    /\ UNCHANGED <<turns, cancelReq, running, srvVars, helixVars>>

\* the task is cancelled at the await it is suspended in: CancelledError is
\* no Exception, so line 129 does not catch it
Cancelled(a) ==
    /\ cancelReq[a] /\ running = NoTask
    /\ pc[a] \in {"created", "initialize", "list_tools", "call_tool", "closing"}
    /\ pc' = [pc EXCEPT ![a] = "cancelled"]
    /\ backend' = [backend EXCEPT ![a] = FALSE]
    /\ outcome' = [outcome EXCEPT ![a] = CancelledError]
    /\ pending' = [pending EXCEPT ![a] = NoOutcome]
    /\ messages' = [messages EXCEPT ![a] = << >>]
    /\ msg' = [msg EXCEPT ![a] = NoMsg]
    /\ callIdx' = [callIdx EXCEPT ![a] = 0]
    /\ tool_result' = [tool_result EXCEPT ![a] = NoToolResult]
    /\ cancelReq' = [cancelReq EXCEPT ![a] = FALSE]
    /\ lastRequest' = [lastRequest EXCEPT ![a] = NoCompletion]
    /\ UNCHANGED <<turns, finished, running, srvVars, helixVars>>


(***************************************************************************)
(* client.py : helix                                                       *)
(***************************************************************************)
AllIn(S) == \A a \in Agent : pc[a] \in S

\* variant: the values in the order the tasks finished
GatherAsCompleted(out) == [i \in 1..Len(finished) |-> out[finished[i]]]

\* asyncio.gather: the tasks' values in the order the awaitables were given
Gather(out) == [i \in 1..Len(agents) |-> out[agents[i]]]

\* line 182: one header-tagged block per successful result
Block(result) ==
    <<"=== ", Upper(result.subdirectory), " RESULTS ===\n">> \o result.result

RECURSIVE Successful(_)
\* lines 174-182: successful_results
Successful(rs) ==
    IF rs = << >> THEN << >>
    ELSE LET result == Head(rs) IN
         IF result.kind = "exc" THEN Successful(Tail(rs))
         ELSE IF Truthy(result.error) THEN Successful(Tail(rs))
         ELSE IF result.result # << >> THEN <<Block(result)>> \o Successful(Tail(rs))
         ELSE Successful(Tail(rs))

RECURSIVE FailedAgents(_)
\* lines 174-182: failed_agents
FailedAgents(rs) ==
    IF rs = << >> THEN << >>
    ELSE LET result == Head(rs) IN
         IF result.kind = "exc"
         THEN <<<<"Unknown agent", ": ", "CancelledError">>>> \o FailedAgents(Tail(rs))
         ELSE IF Truthy(result.error)
         THEN <<<<result.subdirectory, ": ">> \o result.error.s>> \o FailedAgents(Tail(rs))
         ELSE FailedAgents(Tail(rs))

\* lines 185-187
ErrorSummary(failed) ==
    <<"Error: Unable to search any directories. ", "Details:\n">>
    \o (IF failed # << >> THEN JoinStr(<<"\n">>, failed)
        ELSE <<"All agents failed to return results">>)

\* line 189
Concatenated(successful) == JoinStr(<<"\n\n">>, successful)

\* lines 193-195
FailureNote(failed) ==
    IF failed = << >> THEN << >>
    ELSE <<"\n\n", "Note: ", "Some search locations were unavailable: ">>
         \o JoinStr(<<", ">>, [i \in 1..Len(failed) |-> SplitColonHead(failed[i])])

\* variant: the fallback text leaves the note out
FallbackWithoutNote(concatenated, note) ==
    <<"Search Results (summarization unavailable):\n\n">> \o concatenated

\* line 223
Fallback(concatenated, note) ==
    <<"Search Results (summarization unavailable):\n\n">> \o concatenated \o note

\* what the synthesis call can do: raise, or answer with some content
SynthOutcomes == {Raise(<<"synthesis failure">>), Message(None, << >>),
                  Message(Str(<< >>), << >>), Message(Str(<<"summary">>), << >>)}

\* variant: the deadline is set on the whole of helix, the synthesis call
\* included
TimeoutAnyPhase ==
    /\ hpc \in {"gather", "synthesis"} /\ running = NoTask
    /\ hpc' = "timed_out"
    /\ cancelReq' = [a \in Agent |-> pc[a] # "done"]
    /\ UNCHANGED <<pc, messages, msg, callIdx, tool_result, turns, backend, pending,
                   outcome, lastRequest, finished, running, srvVars, results,
                   successful_results, failed_agents, synthInput, synthCalls,
                   summary, response>>

\* variant: wait_for is given no deadline
TimeoutNever == FALSE /\ UNCHANGED vars

\* lines 158-169: the deadline fires while helix awaits the gather; the
\* gather and through it every unfinished task is cancelled.  The timer
\* callback can also run between the last task's end and helix's wake-up.
Timeout ==
    /\ hpc = "gather" /\ running = NoTask
    /\ hpc' = "timed_out"
    /\ cancelReq' = [a \in Agent |-> pc[a] # "done"]
    /\ UNCHANGED <<pc, messages, msg, callIdx, tool_result, turns, backend, pending,
                   outcome, lastRequest, finished, running, srvVars, results,
                   successful_results, failed_agents, synthInput, synthCalls,
                   summary, response>>

\* variant: the timeout response carries what finished agents had found
TimeoutReturnPartial ==
    /\ hpc = "timed_out" /\ running = NoTask
    /\ AllIn({"done", "cancelled"})
    /\ hpc' = "returned"
    /\ response' = [via |-> "timeout",
                    text |-> TimeoutMsg \o Concatenated(Successful(Gather(outcome)))]
    /\ UNCHANGED <<agentVars, srvVars, results, successful_results, failed_agents,
                   synthInput, synthCalls, summary>>

\* variant: the timeout response is returned as soon as the timer has fired,
\* without awaiting the cancelled gather
TimeoutReturnEarly ==
    /\ hpc = "timed_out" /\ running = NoTask
    /\ hpc' = "returned"
    /\ response' = [via |-> "timeout", text |-> TimeoutMsg]
    /\ UNCHANGED <<agentVars, srvVars, results, successful_results, failed_agents,
                   synthInput, synthCalls, summary>>

\* lines 167-169: the cancelled gather has settled
TimeoutReturn ==
    /\ hpc = "timed_out" /\ running = NoTask
    /\ AllIn({"done", "cancelled"})
    /\ hpc' = "returned"
    /\ response' = [via |-> "timeout", text |-> TimeoutMsg]
    /\ UNCHANGED <<agentVars, srvVars, results, successful_results, failed_agents,
                   synthInput, synthCalls, summary>>

\* lines 159-214: every task finished in time; merge, then either the
\* aggregate error or the synthesis call
Gathered ==
    /\ hpc = "gather" /\ running = NoTask
    /\ AllIn({"done"})
    /\ LET rs == Gather(outcome)
           ok == Successful(rs)
           failed == FailedAgents(rs)
       IN  /\ results' = rs
           /\ successful_results' = ok
           /\ failed_agents' = failed
           /\ IF ok = << >>
              THEN /\ hpc' = "returned"
                   /\ response' = [via |-> "error", text |-> ErrorSummary(failed)]
                   /\ UNCHANGED <<synthInput, synthCalls>>
              ELSE /\ hpc' = "synthesis"
                   /\ synthInput' = Concatenated(ok)
                   /\ synthCalls' = synthCalls + 1
                   /\ UNCHANGED response
    /\ UNCHANGED <<agentVars, srvVars, summary>>

\* lines 215-223: the synthesis call returns or raises
SynthesisReturns(r) ==
    /\ hpc = "synthesis"
    /\ r \in SynthOutcomes
    /\ hpc' = "returned"
    /\ summary' = r
    /\ LET note == FailureNote(failed_agents) IN
       IF r.kind = "message" /\ r.content.t = "str"
       THEN response' = [via |-> "summary", text |-> r.content.s \o note]
       ELSE response' = [via |-> "fallback", text |-> Fallback(synthInput, note)]
    /\ UNCHANGED <<agentVars, srvVars, results, successful_results, failed_agents,
                   synthInput, synthCalls>>

(***************************************************************************)
(* The Backend process serving requests                                    *)
(***************************************************************************)
Envs == {[user |-> "u1", subdirectory |-> "docs"],
         [user |-> "u1", subdirectory |-> "media"],
         [user |-> "", subdirectory |-> "docs"],
         [user |-> "u1", subdirectory |-> ""]}

Segments == {"..", "a.txt", "sub", "b.txt", "empty", "m.bin", "out", "lnk",
             "docs2", "secret", "nope"}

RECURSIVE SeqsUpTo(_, _)
SeqsUpTo(S, n) ==
    IF n = 0 THEN {<< >>}
    ELSE LET shorter == SeqsUpTo(S, n - 1)
         IN  shorter \cup {Append(q, x) : q \in shorter, x \in S}

\* the path arguments a caller can send
PathArgs == {RelPath(q) : q \in SeqsUpTo(Segments, MaxPathLen)}
            \cup {AbsPath(<<"uploads", "u10", "processed", "docs", "x.txt">>),
                  AbsPath(<<"uploads", "u1", "processed", "docs", "a.txt">>)}

Request(tool, pattern, path) == [tool |-> tool, pattern |-> pattern, path |-> path]
NoRequest == Request("none", "", NoPath)
NoResponse == [ok |-> TRUE, err |-> "", payload |-> << >>]

\* one request is read from the channel and handled
Serve(req, r) ==
    /\ srvReq = NoRequest
    /\ srvReq' = req
    /\ srvResp' = [ok |-> r.ok, err |-> r.err, payload |-> r.payload]
    /\ fsLog' = r.log
    /\ UNCHANGED <<srvEnv, agentVars, helixVars>>

SrvReadFile(path) == Serve(Request("read_file", "", path), read_file(srvEnv, path))

SrvListFile(path) == Serve(Request("list_file", "", path), list_file(srvEnv, path))

SrvGrep(pattern, path, order) ==
    Serve(Request("grep", pattern, path), grep(srvEnv, pattern, path, order))

\* the result is written to the channel; the Backend waits for the next request
SrvReply ==
    /\ srvReq # NoRequest
    /\ srvReq' = NoRequest
    /\ srvResp' = NoResponse
    /\ fsLog' = << >>
    /\ UNCHANGED <<srvEnv, agentVars, helixVars>>

(***************************************************************************)
(* Specifications                                                          *)
(***************************************************************************)
AgentInit ==
    /\ pc = [a \in Agent |-> "created"]
    /\ messages = [a \in Agent |-> << >>]
    /\ msg = [a \in Agent |-> NoMsg]
    /\ callIdx = [a \in Agent |-> 0]
    /\ tool_result = [a \in Agent |-> NoToolResult]
    /\ turns = [a \in Agent |-> 0]
    /\ backend = [a \in Agent |-> FALSE]
    /\ pending = [a \in Agent |-> NoOutcome]
    /\ outcome = [a \in Agent |-> NoOutcome]
    /\ lastRequest = [a \in Agent |-> NoCompletion]
    /\ cancelReq = [a \in Agent |-> FALSE]
    /\ finished = << >>
    /\ running = NoTask

HelixInit ==
    /\ hpc = "gather"
    /\ results = << >>
    /\ successful_results = << >>
    /\ failed_agents = << >>
    /\ synthInput = << >>
    /\ synthCalls = 0
    /\ summary = NoMsg
    /\ response = [via |-> "none", text |-> << >>]

SrvIdle ==
    /\ srvReq = NoRequest
    /\ srvResp = NoResponse
    /\ fsLog = << >>

\* one helix call: three agents, their Backends, the coordinator
Init ==
    /\ AgentInit /\ HelixInit /\ SrvIdle
    /\ srvEnv = Scope("docs")

Next ==
    \/ \E a \in Agent : StartAgent(a)
    \/ \E a \in Agent, e \in ExcTexts : SpawnFails(a, e)
    \/ \E a \in Agent : Initialized(a)
    \/ \E a \in Agent : ListedTools(a)
    \/ \E a \in Agent, e \in ExcTexts : BackendFails(a, e)
    \/ \E a \in Agent : \E r \in Responses(a, turns[a], messages[a]) :
           CompletionReturns(a, r)
    \/ \E a \in Agent : \E order \in ToolOrders(a) : ToolReturns(a, order)
    \/ \E a \in Agent : Close(a)
    \/ \E a \in Agent : Cancelled(a)
    \/ Timeout
    \/ TimeoutReturn
    \/ Gathered
    \/ \E r \in SynthOutcomes : SynthesisReturns(r)

Spec == Init /\ [][Next]_vars

\* a step of agent a's coroutine
AgentStep(a) ==
    \/ StartAgent(a)
    \/ \E e \in ExcTexts : SpawnFails(a, e)
    \/ Initialized(a)
    \/ ListedTools(a)
    \/ \E e \in ExcTexts : BackendFails(a, e)
    \/ \E r \in Responses(a, turns[a], messages[a]) : CompletionReturns(a, r)
    \/ \E order \in ToolOrders(a) : ToolReturns(a, order)
    \/ LateTurn(a)
    \/ Close(a)
    \/ Cancelled(a)

\* what the service answers in the runs checked for termination: links is
\* asked for one tool call per turn, for as long as the service likes, or
\* given its answer; docs and media get an answer or an exception; a
\* failure has one text
LiveResponses(a) ==
    IF a = "links"
    THEN {Message(Str(Answer(a)), << >>)}
         \cup {Message(None, WithIds(calls, ToolCallsIn(messages[a]))) :
                   calls \in ToolMenu(a, turns[a]) \cap {<<ListDefault>>}}
    ELSE {Message(Str(Answer(a)), << >>), Raise(<<"upstream failure">>)}

\* one helix call in which the completion service may go on asking for tool
\* calls for ever
NextLive ==
    \/ \E a \in Agent : StartAgent(a)
    \/ \E a \in Agent : SpawnFails(a, <<"upstream failure">>)
    \/ \E a \in Agent : Initialized(a)
    \/ \E a \in Agent : ListedTools(a)
    \/ \E a \in Agent : BackendFails(a, <<"upstream failure">>)
    \/ \E a \in Agent : \E r \in LiveResponses(a) : CompletionReturns(a, r)
    \/ \E a \in Agent : \E order \in ToolOrders(a) : ToolReturns(a, order)
    \/ \E a \in Agent : LateTurn(a)
    \/ \E a \in Agent : Close(a)
    \/ \E a \in Agent : Cancelled(a)
    \/ Timeout
    \/ TimeoutReturn
    \/ Gathered
    \/ \E r \in SynthOutcomes : SynthesisReturns(r)

\* a step of the program other than the deadline's
Step ==
    \/ \E a \in Agent : AgentStep(a)
    \/ TimeoutReturn
    \/ Gathered
    \/ \E r \in SynthOutcomes : SynthesisReturns(r)

\* every call that was made returns and the event loop runs a task that is
\* ready (weak fairness of the steps); time advances, so the timer of
\* wait_for fires once the loop is free often enough (strong fairness: a
\* synchronous completion call holds the loop meanwhile)
Fairness == WF_vars(Step) /\ SF_vars(Timeout)

SpecLive == Init /\ [][NextLive]_vars /\ Fairness

\* one Backend process and the tool requests it can be sent
InitBackend ==
    /\ AgentInit /\ HelixInit /\ SrvIdle
    /\ srvEnv \in Envs

\* the long documents of u1/media
LongFiles == {RelPath(<<n>>) : n \in {"list0.txt", "list1.txt", "list2.txt"}}

\* the document of u1/docs that cannot be read
FaultyFiles == {RelPath(<<"bad.txt">>)}

\* a Backend whose environment is incomplete fails every request alike
PathArgsFor(env) ==
    IF get_user_dir(env).ok THEN PathArgs \cup LongFiles \cup FaultyFiles
    ELSE {RelPath(<<"a.txt">>)}

NextBackend ==
    \/ /\ srvReq = NoRequest
       /\ \E path \in PathArgsFor(srvEnv) : SrvReadFile(path)
    \/ /\ srvReq = NoRequest
       /\ \E path \in PathArgsFor(srvEnv) : SrvListFile(path)
    \/ /\ srvReq = NoRequest
       /\ \E pattern \in Patterns, path \in PathArgsFor(srvEnv) \cup {NoPath} :
              \E order \in OrdersOf(srvEnv, "grep", pattern, path) :
                  SrvGrep(pattern, path, order)
    \/ SrvReply

SpecBackend == InitBackend /\ [][NextBackend]_vars


(***************************************************************************)
(* Properties of the Backend (checked under SpecBackend)                   *)
(***************************************************************************)
\* the SandboxRoot of the Backend under test
SandboxRoot == Resolve(get_user_dir(srvEnv).path)

\* where the path argument of the request under service points
Target == Resolve(JoinPath(get_user_dir(srvEnv).path, srvReq.path))

Served == srvReq # NoRequest /\ srvReq.path.given /\ get_user_dir(srvEnv).ok

\* C1: a request with a path argument never opens or lists anything that is
\* not SandboxRoot or below it, in particular nothing under a sibling
\* directory whose path merely extends the root's path string
\* (processed/docs2 next to processed/docs).
C1_NoSiblingRootAccess ==
    Served =>
        \A i \in DOMAIN fsLog :
            fsLog[i].call \in {"open", "iterdir"} => IsWithin(fsLog[i].path, SandboxRoot)

\* C2 (for targets outside the root): whenever the path argument resolves
\* to a location that is neither SandboxRoot nor below it, the request is
\* answered with the access-denied error and no filesystem access (exists,
\* is_file, is_dir, open, iterdir) is made for it.
C2_OutsideIsDeniedUntouched ==
    (Served /\ ~IsWithin(Target, SandboxRoot)) =>
        (srvResp.err = "AccessDenied" /\ fsLog = << >>)

(***************************************************************************)
(* Properties of the agent loop (checked under Spec)                       *)
(***************************************************************************)
Last(q) == q[Len(q)]

\* what a step of agent a that took a tool result back must have done
C3_Step(a) ==
    (tool_result'[a] # tool_result[a] /\ tool_result'[a].isError) =>
        LET k == callIdx[a]
            calls == msg[a].tool_calls
        IN  /\ messages'[a] = Append(messages[a], Last(messages'[a]))
            /\ Last(messages'[a]).role = "tool"
            /\ Last(messages'[a]).tool_call_id = calls[k].id
            /\ Last(messages'[a]).content = Str(tool_result'[a].payload)
            /\ Head(tool_result'[a].payload) = "Error executing tool"
            /\ IF k = Len(calls)
               THEN /\ pc'[a] = "completion"
                    /\ turns'[a] = turns[a] + 1
                    /\ lastRequest'[a].messages = messages'[a]
               ELSE IF JsonLoads(calls[k + 1])
                    THEN pc'[a] = "call_tool" /\ callIdx'[a] = k + 1
                    ELSE pc'[a] = "closing"

\* C3: when a tool call comes back as a failure (not found, invalid
\* pattern, ...), the agent appends a tool message with the failed call's id
\* and the error text, and goes on: to the next call of the turn, or to the
\* next completion call, which is sent the Conversation with that message.
C3_FailedToolCallContinues == [][\A a \in Agent : C3_Step(a)]_vars

\* a failed tool call is in the Conversation and the agent is about to
\* return a non-empty result without error
C3_Witness ==
    \E a \in Agent :
        /\ pc[a] = "closing"
        /\ pending[a].error = None /\ pending[a].result # << >>
        /\ \E i \in DOMAIN messages[a] :
               /\ messages[a][i].role = "tool"
               /\ Head(messages[a][i].content.s) = "Error executing tool"

RECURSIVE Paired(_)
\* ms is a run of groups: an assistant message with n >= 1 tool calls,
\* then exactly n tool messages answering them in order, by id
Paired(ms) ==
    IF ms = << >> THEN TRUE
    ELSE LET n == Len(Head(ms).tool_calls)
         IN  /\ Head(ms).role = "assistant" /\ n >= 1
             /\ Len(ms) >= n + 1
             /\ \A j \in 1..n : /\ ms[j + 1].role = "tool"
                                /\ ms[j + 1].tool_call_id = Head(ms).tool_calls[j].id
             /\ Paired(SubSeq(ms, n + 2, Len(ms)))

ToolIds(ms) == {i \in DOMAIN ms : ms[i].role = "tool"}

\* C4: the Conversation submitted by every completion call after the first
\* is system, user, and then for each assistant message with tool calls
\* exactly one tool message per call, with that call's id, directly after it
\* in the order of the calls; no tool message answers no call, none twice.
C4_ToolResultsPaired ==
    \A a \in Agent :
        (pc[a] = "completion" /\ turns[a] > 1) =>
            LET ms == lastRequest[a].messages
            IN  /\ ms = messages[a]
                /\ Len(ms) > 2
                /\ ms[1].role = "system" /\ ms[2].role = "user"
                /\ Paired(SubSeq(ms, 3, Len(ms)))
                /\ \A i, j \in ToolIds(ms) :
                       ms[i].tool_call_id = ms[j].tool_call_id => i = j

\* a third completion call, after two tool turns, one of them with two calls
C4_Witness ==
    \E a \in Agent :
        /\ pc[a] = "completion" /\ turns[a] = 3
        /\ \E i \in DOMAIN messages[a] : Len(messages[a][i].tool_calls) >= 2

\* agent a leaves its loop in this step
Leaves(a) ==
    /\ pc[a] \in {"created", "initialize", "list_tools", "call_tool", "completion"}
    /\ pc'[a] \in {"closing", "done"}

\* what agent a is about to return after the step
Returned(a) == IF pc'[a] = "done" THEN outcome'[a] ELSE pending'[a]

C5_Step(a) ==
    Leaves(a) =>
        /\ Returned(a).kind = "dict" /\ Returned(a).subdirectory = a
        /\ \/ /\ pc[a] = "completion"
              /\ msg'[a].kind = "message" /\ msg'[a].tool_calls = << >>
              /\ Returned(a).error = None
           \/ /\ Returned(a).error # None
              /\ Returned(a).result = << >>
        /\ hpc' = hpc /\ response' = response
        /\ \A b \in Agent \ {a} :
               /\ pc'[b] = pc[b] /\ cancelReq'[b] = cancelReq[b]
               /\ backend'[b] = backend[b] /\ messages'[b] = messages[b]
               /\ pending'[b] = pending[b] /\ outcome'[b] = outcome[b]

\* C5: whenever an agent ends other than by a final answer (its Backend
\* cannot be spawned or reached, a completion call raises, the arguments do
\* not parse), it ends with a dict whose error is set and whose result is
\* empty; the step touches neither helix nor any sibling agent, and the
\* value a finished task holds is never an exception.
C5_FailureStaysInAgent ==
    [][\A a \in Agent : C5_Step(a) /\ (pc'[a] = "done" => outcome'[a].kind = "dict")]_vars

\* one agent has failed, a sibling went on and finished with a result
C5_Witness ==
    \E a, b \in Agent :
        /\ pc[a] = "done" /\ outcome[a].error # None
        /\ finished = <<a, b>>
        /\ outcome[b].error = None /\ outcome[b].result # << >>

(***************************************************************************)
(* Properties of the coordinator (checked under Spec)                      *)
(***************************************************************************)
Success(a) == outcome[a].kind = "dict" /\ outcome[a].error = None
              /\ outcome[a].result # << >>

Succeeded == {a \in Agent : Success(a)}
Failed    == Agent \ Succeeded

SelectSeq2(q, S) == SelectSeq(q, LAMBDA x : x \in S)

\* the successful results, header-tagged, in declaration order
ExpectedBlocks ==
    LET ok == SelectSeq2(agents, Succeeded)
    IN  [i \in 1..Len(ok) |->
            <<"=== ", Upper(ok[i]), " RESULTS ===\n">> \o outcome[ok[i]].result]

ExpectedConcatenation == JoinStr(<<"\n\n">>, ExpectedBlocks)

\* the categories a text names (headers are upper case, the note is not)
Named(text) == {a \in Agent : \E i \in DOMAIN text : text[i] = a}

Merged == hpc = "returned" /\ response.via \in {"summary", "fallback"}

\* C6: after a merge with at least one success and at least one failure,
\* the synthesis input is built from exactly the successful results and the
\* note names exactly the categories that failed (error, or empty result).
C6_NoteNamesExactlyFailed ==
    (Merged /\ Failed # {}) =>
        /\ synthInput = ExpectedConcatenation
        /\ Named(response.text) = Failed

\* C7: when no agent succeeded, the response is the aggregate error, no
\* synthesis call was made, and every category has exactly one entry in it.
C7_AggregateErrorListsAll ==
    (hpc = "returned" /\ response.via = "error") =>
        /\ synthCalls = 0
        /\ \A a \in Agent :
               Cardinality({i \in DOMAIN response.text : response.text[i] = a}) = 1

\* C8: once the deadline has fired, helix does not merge and makes no
\* synthesis call, and what it returns is exactly the fixed timeout message,
\* whatever the agents that had finished hold.
C8_TimeoutOnly ==
    (hpc = "timed_out" \/ response.via = "timeout") =>
        /\ results = << >> /\ successful_results = << >> /\ failed_agents = << >>
        /\ synthInput = << >> /\ synthCalls = 0 /\ summary = NoMsg
        /\ hpc = "returned" => response = [via |-> "timeout", text |-> TimeoutMsg]

\* timeout returned although one agent had finished with a result and
\* another was cancelled in flight
C8_Witness ==
    /\ hpc = "returned" /\ response.via = "timeout"
    /\ \E a, b \in Agent : Success(a) /\ pc[b] = "cancelled"

\* the synthesis call raised, or came back without content or with empty
\* content
SynthesisFailed ==
    summary.kind = "raise" \/ summary.content = None \/ summary.content = Str(<< >>)

\* C9: when the synthesis call raises or comes back with no usable content
\* (none, or the empty string), the response is the fallback: the marker,
\* then the successful results, each under its category header, in
\* declaration order, then the note; it is a function of the agent outcomes
\* alone.
C9_FallbackOnSynthesisFailure ==
    (hpc = "returned" /\ synthCalls > 0 /\ SynthesisFailed) =>
        /\ response.via = "fallback"
        /\ response.text =
               <<"Search Results (summarization unavailable):\n\n">>
               \o ExpectedConcatenation \o FailureNote(failed_agents)
        /\ failed_agents = FailedAgents([i \in 1..Len(agents) |-> outcome[agents[i]]])

RECURSIVE Increasing(_)
Increasing(q) ==
    Len(q) < 2 \/ (q[1] < q[2] /\ Increasing(Tail(q)))

\* position of a category in the declaration
Pos(a) == CHOOSE i \in 1..Len(agents) : agents[i] = a

\* C10: whatever order the agents finished in, the merged successful
\* results are the blocks of the successful categories in declaration order
\* (links, docs, media) and the failed list follows the same order.
C10_DeclarationOrder ==
    (hpc = "synthesis" \/ (hpc = "returned" /\ response.via # "timeout")) =>
        /\ successful_results = ExpectedBlocks
        /\ synthCalls > 0 => synthInput = ExpectedConcatenation
        /\ Increasing([i \in 1..Len(failed_agents) |-> Pos(Head(failed_agents[i]))])

\* merged although the agents finished in the reverse of declaration order,
\* all three with a result
C10_Witness ==
    /\ hpc = "synthesis"
    /\ finished = <<"media", "docs", "links">>
    /\ Succeeded = Agent

(***************************************************************************)
(* Further properties of the agent loop (checked under Spec)               *)
(***************************************************************************)
\* a completion call of agent a returns in this step
CompletionStep(a) == running = a /\ running' = NoTask

\* the dict of a run that ended in a final answer
IsAnswer(d) == d.kind = "dict" /\ d.error = None

C11_Step(a) ==
    /\ (CompletionStep(a) /\ msg'[a].kind = "message" /\ msg'[a].tool_calls = << >>) =>
           /\ pc'[a] = "closing"
           /\ pending'[a] = [kind |-> "dict", subdirectory |-> a,
                             result |-> OrEmpty(msg'[a].content), error |-> None]
           /\ turns'[a] = turns[a] /\ messages'[a] = messages[a]
           /\ turns[a] = 1 => (Len(messages[a]) = 2 /\ ToolIds(messages[a]) = {})
    /\ (pending'[a] # pending[a] /\ IsAnswer(pending'[a])) =>
           /\ CompletionStep(a)
           /\ msg'[a].kind = "message" /\ msg'[a].tool_calls = << >>
    /\ (pc'[a] = "done" /\ pc[a] # "done" /\ IsAnswer(outcome'[a])) =>
           /\ pc[a] = "closing" /\ outcome'[a] = pending[a]
           /\ turns'[a] = turns[a]

\* C11: a completion response without tool calls ends the loop there and
\* then: no further completion call and no tool call is made (none at all
\* when it is the first response), and the agent's result is that
\* response's content; and the agent returns a result only on a response
\* without tool calls.
C11_ZeroToolCallsEndsLoop == [][\A a \in Agent : C11_Step(a)]_vars

\* an agent finished after one completion call with that call's content
C11_Witness ==
    \E a \in Agent :
        /\ pc[a] = "done" /\ turns[a] = 1
        /\ outcome[a] = [kind |-> "dict", subdirectory |-> a,
                         result |-> Answer(a), error |-> None]

(***************************************************************************)
(* The match cap of grep (checked under SpecBackend)                       *)
(***************************************************************************)
GrepServed == srvReq.tool = "grep" /\ srvResp.ok

NoMatches == Last(srvResp.payload).text = "No matches found"

\* the match lines of the result, without the annotation
MatchLines ==
    IF NoMatches THEN << >> ELSE SelectSeq(srvResp.payload, LAMBDA m : m.line > 0)

Annotated == ~NoMatches /\ Last(srvResp.payload).line = 0

\* the files opened for the request, in the order they were opened
Opened ==
    LET o == SelectSeq(fsLog, LAMBDA x : x.call = "open")
    IN  [i \in 1..Len(o) |-> o[i].path]

\* the lines of file p the pattern matches (none when it cannot be read)
Available(p) ==
    IF ~Disk[p].readable \/ ~Disk[p].utf8 \/ Disk[p].fault THEN 0
    ELSE Cardinality({i \in DOMAIN Disk[p].lines : Matches(srvReq.pattern, Disk[p].lines[i])})

RECURSIVE AvailableIn(_)
AvailableIn(q) == IF q = << >> THEN 0 ELSE Available(Head(q)) + AvailableIn(Tail(q))

RECURSIVE AvailableOf(_)
AvailableOf(S) ==
    IF S = {} THEN 0
    ELSE LET p == CHOOSE x \in S : TRUE IN Available(Resolve(p)) + AvailableOf(S \ {p})

\* all the matching lines in the scope of the request
TotalAvailable ==
    IF srvReq.path.given THEN Available(Target) ELSE AvailableOf(WalkFiles(SandboxRoot))

\* C12: a grep result has at most 100 match lines in all; a file is opened
\* only while the files opened before it hold fewer than 100 matches; and a
\* result that leaves matches out ends with the truncation annotation.
C12_GrepCap ==
    GrepServed =>
        /\ Len(MatchLines) <= max_matches
        /\ \A j \in 2..Len(Opened) : AvailableIn(SubSeq(Opened, 1, j - 1)) < max_matches
        /\ Len(MatchLines) < TotalAvailable => Annotated

\* a recursive search that took 60 matches from one file, the remaining 40
\* of the 60 of a second one, and left a third file unopened
C12_Witness ==
    /\ GrepServed /\ ~srvReq.path.given
    /\ Len(MatchLines) = max_matches /\ Annotated
    /\ Len(Opened) = 2
    /\ Available(Opened[1]) = 60 /\ Available(Opened[2]) = 60
    /\ \E p \in WalkFiles(SandboxRoot) :
           Available(p) > 0 /\ \A i \in 1..Len(Opened) : Opened[i] # p

(***************************************************************************)
(* Cancellation and the Backend's lifetime (checked under Spec)            *)
(***************************************************************************)
TimedOut == hpc = "returned" /\ response.via = "timeout"

C13_Step ==
    /\ (hpc = "gather" /\ hpc' = "timed_out") =>
           \A a \in Agent : pc[a] # "done" => cancelReq'[a]
    /\ \A a \in Agent :
           cancelReq[a] =>
               /\ pc'[a] \in {pc[a], "cancelled"}
               /\ turns'[a] = turns[a]
               /\ pc'[a] = pc[a] => (messages'[a] = messages[a] /\ callIdx'[a] = callIdx[a])
               /\ pc'[a] = "cancelled" => ~backend'[a]
    /\ (hpc' = "returned" /\ response'.via = "timeout") =>
           /\ running' = NoTask
           /\ \A a \in Agent : pc'[a] \in {"done", "cancelled"} /\ ~backend'[a]
    /\ TimedOut => UNCHANGED agentVars

\* C13: when the deadline fires, every agent that has not finished is
\* cancelled; a cancelled agent makes no further completion or tool call
\* and its Backend ends with it; when helix returns the timeout response no
\* agent is running, no Backend is alive, and nothing of the agents moves
\* afterwards.
C13_TimeoutCancelsAll == [][C13_Step]_vars

\* the timeout response, returned after an agent that had a Backend and
\* had made a completion call was cancelled
C13_Witness ==
    /\ TimedOut
    /\ \E b \in Agent : pc[b] = "cancelled" /\ turns[b] >= 1 /\ ~backend[b]

(***************************************************************************)
(* Termination (checked under SpecLive)                                    *)
(***************************************************************************)
\* C14: every helix call returns in the end, also when the completion
\* service answers an agent with tool calls for ever: the deadline then ends
\* the run.
C14_HelixReturns == <>(hpc = "returned")

\* the timeout response after an agent was cancelled in the middle of a
\* turn past every bound on the turns
C14_Witness ==
    /\ TimedOut
    /\ \E a \in Agent : pc[a] = "cancelled" /\ turns[a] > MaxTurns

(***************************************************************************)
(* Classification, the tool catalog, suspension (checked under Spec)       *)
(***************************************************************************)
\* agent a finished without error and without a result
EmptyHanded(a) ==
    outcome[a].kind = "dict" /\ outcome[a].error = None /\ outcome[a].result = << >>

\* C15: after a normal completion, a category whose agent finished without
\* error but with an empty result counts as failed: it is named in the note
\* when another category succeeded, and in the aggregate error when none did.
C15_EmptyResultIsFailure ==
    (hpc = "returned" /\ response.via \in {"summary", "fallback", "error"}) =>
        \A a \in Agent : EmptyHanded(a) => a \in Named(response.text)

\* C16: every completion call of the agent loop, the first and each
\* follow-up, submits the whole Conversation together with the tool catalog.
C16_EveryCallCarriesTools ==
    \A a \in Agent :
        pc[a] = "completion" =>
            /\ lastRequest[a].messages = messages[a]
            /\ lastRequest[a].tools

\* C17: while an agent waits for a completion response and helix is still
\* gathering, the deadline can take effect and an agent that has not yet
\* started can start.
C17_CompletionWaitIsSuspension ==
    \A a \in Agent :
        (pc[a] = "completion" /\ hpc = "gather") =>
            /\ ENABLED Timeout
            /\ \A b \in Agent \ {a} : pc[b] = "created" => ENABLED StartAgent(b)

(***************************************************************************)
(* The Backend's lifetime (checked under Spec)                             *)
(***************************************************************************)
InFlight == {"initialize", "list_tools", "completion", "call_tool", "closing"}

\* C18: a Backend is alive only while its agent is between its start and
\* its end: an agent that has not started, has produced its outcome (result
\* or error) or was cancelled has no live Backend, and none is alive once
\* helix has returned.
C18_BackendLifetime ==
    \A a \in Agent :
        /\ backend[a] => pc[a] \in InFlight
        /\ hpc = "returned" => ~backend[a]

\* helix has returned; one agent had ended with a result, one with an error
\* after its Backend had served it, one was cancelled in the middle of a
\* tool call
C18_Witness ==
    /\ hpc = "returned"
    /\ \E a, b, c \in Agent :
           /\ Success(a)
           /\ pc[b] = "done" /\ outcome[b].error # None /\ turns[b] >= 1
           /\ pc[c] = "cancelled" /\ turns[c] >= 1
    /\ \A a \in Agent : ~backend[a]

(***************************************************************************)
(* One call at a time within an agent loop (checked under Spec)            *)
(***************************************************************************)
\* the Conversation ends with the assistant message of the current turn
\* followed by the tool messages of its first n calls, in the order issued
TurnTail(a, n) ==
    LET ms    == messages[a]
        calls == msg[a].tool_calls
        base  == Len(ms) - n
    IN  /\ base >= 1
        /\ ms[base] = AssistantMsg(msg[a])
        /\ \A i \in 1..n : /\ ms[base + i].role = "tool"
                           /\ ms[base + i].tool_call_id = calls[i].id
        /\ n >= 1 => Last(ms) = ToolMsg(calls[n].id, tool_result[a].payload)

\* C19: within one agent loop one call is outstanding at a time.  While the
\* k-th tool call of a turn is executing no completion call of the agent is
\* outstanding and the Conversation ends with the turn's assistant message
\* and the results of exactly the calls 1..k-1, in the order issued; a
\* follow-up completion call is outstanding only once the results of all
\* the turn's calls are appended, and it is sent that Conversation.
C19_OneCallAtATime ==
    \A a \in Agent :
        /\ running = a => pc[a] = "completion"
        /\ pc[a] = "call_tool" =>
               /\ callIdx[a] \in 1..Len(msg[a].tool_calls)
               /\ TurnTail(a, callIdx[a] - 1)
        /\ (pc[a] = "completion" /\ turns[a] > 1) =>
               /\ running = a
               /\ TurnTail(a, Len(msg[a].tool_calls))
               /\ lastRequest[a].messages = messages[a]

\* in its second turn an agent executes the second call of a turn of two,
\* the result of the first being the last message of its Conversation
C19_MidTurn ==
    \E a \in Agent :
        /\ pc[a] = "call_tool" /\ callIdx[a] = 2 /\ Len(msg[a].tool_calls) = 2
        /\ turns[a] = 2

C19_Witness == C19_MidTurn /\ TurnTail("links", 1)

(***************************************************************************)
(* The note on unavailable categories (checked under Spec)                 *)
(***************************************************************************)
\* the categories whose outcome is recorded as failed, in declaration order
RecordedFailed == SelectSeq2(agents, {a \in Agent : Truthy(outcome[a].error)})

\* the note as a function of the agent outcomes alone
ExpectedNote ==
    IF RecordedFailed = << >> THEN << >>
    ELSE <<"\n\n", "Note: ", "Some search locations were unavailable: ">>
         \o JoinStr(<<", ">>, [i \in 1..Len(RecordedFailed) |-> <<RecordedFailed[i]>>])

IsSuffix(n, t) ==
    Len(n) <= Len(t) /\ SubSeq(t, Len(t) - Len(n) + 1, Len(t)) = n

\* C20: with at least one success, the returned text is the summary, or the
\* fallback marker and the concatenated results, followed by the note; the
\* note is one function of the agent outcomes in both cases, it is empty
\* exactly when no category is recorded as failed, and the text ends in it.
C20_NoteSameEmptyLast ==
    Merged =>
        LET body == IF response.via = "summary" THEN summary.content.s
                    ELSE <<"Search Results (summarization unavailable):\n\n">>
                         \o ExpectedConcatenation
        IN  /\ response.text = body \o ExpectedNote
            /\ IsSuffix(ExpectedNote, response.text)
            /\ (ExpectedNote = << >>) <=> (failed_agents = << >>)
            /\ Len(failed_agents) = Len(RecordedFailed)

\* the fallback was used after two categories were recorded as failed
C20_Witness ==
    /\ Merged /\ response.via = "fallback"
    /\ Len(failed_agents) = 2
    /\ Len(ExpectedNote) > 3

(***************************************************************************)
(* The recursive search (checked under SpecBackend)                        *)
(***************************************************************************)
\* a grep request without a path argument is under service
RecursiveGrep ==
    srvReq.tool = "grep" /\ ~srvReq.path.given /\ get_user_dir(srvEnv).ok

\* C21: every file a grep without a path opens, entries that are symlinks
\* included, resolves to SandboxRoot or to a location below it.
C21_RecursiveGrepContained ==
    RecursiveGrep =>
        \A i \in DOMAIN fsLog :
            fsLog[i].call = "open" => IsWithin(fsLog[i].path, SandboxRoot)

\* C22: the result of a grep without a path does not depend on the order in
\* which the filesystem enumerates the entries: whatever that order, the
\* same match lines come back in the same order, and the same ones are kept
\* when the cap truncates.
C22_FixedWalkOrder ==
    RecursiveGrep =>
        \A o \in OrdersOf(srvEnv, "grep", srvReq.pattern, srvReq.path) :
            grep(srvEnv, srvReq.pattern, srvReq.path, o).payload = srvResp.payload

\* a grep request with a pattern that does not compile is under service
BadPatternServed == srvReq.tool = "grep" /\ ~ValidPattern(srvReq.pattern)

\* C23: a grep with an invalid pattern is answered with the invalid-pattern
\* error and nothing else happens in the call: no filesystem access is
\* made, and neither a missing environment (the user directory) nor a path
\* argument that would be denied or not found changes the answer.
C23_InvalidPatternFirst ==
    BadPatternServed =>
        /\ ~srvResp.ok /\ srvResp.err = "InvalidPattern"
        /\ fsLog = << >>

\* an invalid pattern was sent together with a path outside SandboxRoot
C23_Witness ==
    /\ BadPatternServed /\ srvResp.err = "InvalidPattern"
    /\ Served /\ ~IsWithin(Target, SandboxRoot)
    /\ srvReq.path.abs

Min(x, y) == IF x <= y THEN x ELSE y

\* C24: a grep without a path never fails because of a file that cannot be
\* read (undecodable, permission denied, or unreadable for another reason):
\* it is answered normally and the result holds every matching line of the
\* readable files under SandboxRoot, up to the cap.
C24_UnreadableFilesSkipped ==
    (RecursiveGrep /\ ValidPattern(srvReq.pattern)) =>
        /\ srvResp.ok
        /\ Len(MatchLines) = Min(max_matches, TotalAvailable)

(***************************************************************************)
(* Directory listings (checked under SpecBackend)                          *)
(***************************************************************************)
\* a list_file request for a location inside SandboxRoot is under service
ListServed == srvReq.tool = "list_file" /\ Served /\ IsWithin(Target, SandboxRoot)

\* the listing has one line for entry c, with its tag
ListedOnce(c) ==
    LET tag == IF IsDir(Resolve(c)) THEN "[DIR]  " ELSE "[FILE] "
    IN  Cardinality({i \in DOMAIN srvResp.payload :
                        srvResp.payload[i] = <<tag, c[Len(c)]>>}) = 1

\* C25: list_file on an existing directory inside SandboxRoot answers
\* normally: with the empty marker when the directory has no entries, and
\* otherwise with exactly one line per entry, tagged directory or file, the
\* names in ascending code-point order; inside SandboxRoot it fails only
\* for a missing path (not found) and for a non-directory.
C25_ListingSortedAndComplete ==
    ListServed =>
        /\ IsDir(Target) =>
               /\ srvResp.ok
               /\ IF Children(Target) = {}
                  THEN srvResp.payload = <<"Directory is empty">>
                  ELSE /\ Len(srvResp.payload) = Cardinality(Children(Target))
                       /\ \A c \in Children(Target) : ListedOnce(c)
                       /\ \A i, j \in DOMAIN srvResp.payload :
                              i < j => NameLess(srvResp.payload[i][2],
                                                srvResp.payload[j][2])
        /\ ~srvResp.ok =>
               \/ ~Exists(Target) /\ srvResp.err = "NotFound"
               \/ Exists(Target) /\ ~IsDir(Target) /\ srvResp.err = "NotADirectory"

\* the listing of a root with files, directories and symlinks to both
C25_Witness ==
    /\ ListServed /\ srvResp.ok /\ Target = SandboxRoot
    /\ Len(srvResp.payload) >= 5
    /\ \E c, d \in Children(Target) : IsLink(c) /\ IsDir(Resolve(c)) /\ IsFile(d)

(***************************************************************************)
(* Tool-call arguments that are not JSON (checked under Spec)              *)
(***************************************************************************)
JsonError(a) == [kind |-> "dict", subdirectory |-> a, result |-> << >>,
                 error |-> Str(<<"JSONDecodeError">>)]

\* in this step agent a comes to a call of the current turn whose arguments
\* do not parse: the first call of a response that has just arrived, or the
\* call after the one whose result has just been appended
MeetsBadJson(a) ==
    \/ /\ CompletionStep(a) /\ msg'[a].kind = "message"
       /\ msg'[a].tool_calls # << >> /\ ~JsonLoads(msg'[a].tool_calls[1])
    \/ /\ pc[a] = "call_tool" /\ Len(messages'[a]) > Len(messages[a])
       /\ callIdx[a] < Len(msg[a].tool_calls)
       /\ ~JsonLoads(msg[a].tool_calls[callIdx[a] + 1])

C26_Step(a) ==
    /\ MeetsBadJson(a) =>
           /\ pc'[a] = "closing" /\ pending'[a] = JsonError(a)
           /\ turns'[a] = turns[a] /\ running' # a
           /\ \A i \in DOMAIN messages'[a] :
                  messages'[a][i].role = "tool" =>
                      messages'[a][i].tool_call_id < msg'[a].tool_calls[callIdx'[a]].id
    /\ (pc[a] = "closing" /\ pending[a] = JsonError(a)) =>
           /\ pc'[a] \in {"closing", "done", "cancelled"}
           /\ turns'[a] = turns[a] /\ running' # a
           /\ pc'[a] = "closing" => messages'[a] = messages[a]
           /\ pc'[a] = "done" => outcome'[a] = JsonError(a)

\* C26: when the agent comes to a tool call whose arguments are not valid
\* JSON, no tool message is made for it: the run ends there with an error
\* outcome and an empty result, that call and the calls after it in the turn
\* are not executed, and no further completion call is made.
C26_BadJsonEndsRun == [][\A a \in Agent : C26_Step(a)]_vars

\* an agent is about to return the error outcome: the second call of a turn
\* of three did not parse, after the first had been executed
C26_Witness ==
    \E a \in Agent :
        /\ pc[a] = "closing" /\ pending[a] = JsonError(a)
        /\ callIdx[a] = 2 /\ Len(msg[a].tool_calls) = 3
        /\ Last(messages[a]).role = "tool"
        /\ Last(messages[a]).tool_call_id = msg[a].tool_calls[1].id

(***************************************************************************)
(* What the deadline covers (checked under Spec)                           *)
(***************************************************************************)
\* the gather has handed its results to helix: the merge has started
MergeStarted == results # << >>

C27_Step ==
    /\ MergeStarted =>
           /\ ~ENABLED Timeout
           /\ hpc' # "timed_out" /\ response'.via # "timeout"
    /\ (hpc' = "timed_out" /\ hpc # "timed_out") => (hpc = "gather" /\ ~MergeStarted)
    /\ response'.via = "timeout" => (~MergeStarted' /\ synthCalls' = 0)

====
